---- MODULE Spec2Model ----
(***************************************************************************)
(* State-machine model of src/scraper/superbid_monitor.py: main() builds   *)
(* a SuperBidMonitor and calls run(), which loads the reference items page *)
(* by page, fetches every category of SUPERBID_CATEGORIES, turns matching  *)
(* offers into bid records, updates the base tables record by record,      *)
(* writes the history in one bulk upsert and prints the summary.  Every    *)
(* call to the store or to the HTTP API is one step; its outcome (rows,    *)
(* payload, fault) is chosen by the environment.                           *)
(***************************************************************************)
EXTENDS Integers, Sequences, FiniteSets, TLC

\* ------------------------------------------------------------------ bounds
\* page_size of load_database_items (1000 in the source, line 76), scaled
\* down so that several full pages fit in a small view.
PageSize == 3
\* Largest number of rows the view serves.
MaxRows == 13
\* Largest number of offers the API serves over one run, all categories.
MaxOffers == 2

\* ------------------------------------------------------- program constants
\* record["captured_at"][:19]
TruncLen == 19
\* matched_count < len(self.db_items) * 0.1, with 0.1 the double
\* 3602879701896397 / 2^55 = (2^55 + 2) / (10 * 2^55); see LowMatch.
WarnDen == 10

SUPERBID_CATEGORIES ==
  << "alimentos-e-bebidas", "animais", "artes-decoracao-colecionismo",
     "bolsas-canetas-joias-e-relogios", "caminhoes-onibus", "carros-motos",
     "cozinhas-e-restaurantes", "eletrodomesticos", "embarcacoes-aeronaves",
     "imoveis", "industrial-maquinas-equipamentos",
     "maquinas-pesadas-agricolas", "materiais-para-construcao-civil",
     "moveis-e-decoracao", "movimentacao-transporte", "oportunidades",
     "sucatas-materiais-residuos", "tecnologia" >>

\* ------------------------------------------------- JSON / Python values
JInt(n) == [t |-> "int", v |-> n]
JStr(s) == [t |-> "str", v |-> s]
JNull == [t |-> "null", v |-> 0]
JObj(o) == [t |-> "obj", v |-> o]
\* A key that the dict does not hold.
Missing == [t |-> "missing", v |-> 0]

\* dict.get(key): None for a key the dict does not hold.
Get(v) == IF v = Missing THEN JNull ELSE v

\* dict.get(key, default): the default only for a key the dict does not hold.
GetDefault(v, d) == IF v = Missing THEN d ELSE v

\* Python truth value of None, an int, a str or a dict.
Truthy(v) ==
  CASE v.t = "int" -> v.v # 0
    [] v.t = "str" -> v.v # ""
    [] v.t = "obj" -> TRUE
    [] OTHER -> FALSE

\* Python's  a or b.
PyOr(a, b) == IF Truthy(a) THEN a ELSE b

Digit(d) ==
  CASE d = 0 -> "0" [] d = 1 -> "1" [] d = 2 -> "2" [] d = 3 -> "3"
    [] d = 4 -> "4" [] d = 5 -> "5" [] d = 6 -> "6" [] d = 7 -> "7"
    [] d = 8 -> "8" [] d = 9 -> "9"

RECURSIVE IntToStr(_)
IntToStr(n) == IF n < 10 THEN Digit(n) ELSE IntToStr(n \div 10) \o Digit(n % 10)

\* What an f-string writes for an int or a str.
Format(v) == IF v.t = "int" THEN IntToStr(v.v) ELSE v.v

\* f"https://exchange.superbid.net/oferta/{offer_id}"
OfferUrl(id) == "https://exchange.superbid.net/oferta/" \o Format(id)

Min(a, b) == IF a < b THEN a ELSE b

\* ------------------------------------------------------------ the view
\* Row i of vw_auctions_unified (1-based), after the source and is_active
\* filters.  Row 3 has no link, row 4 repeats the link of row 1, row 5 has
\* a link of another format; every other row i has the link of offer i.
\* In a linkless view every link is null or empty.
RowLink(i, linkless) ==
  CASE linkless -> IF i % 2 = 1 THEN JNull ELSE JStr("")
    [] i = 3 -> JNull
    [] i = 4 -> JStr(OfferUrl(JInt(1)))
    [] i = 5 -> JStr("https://www.superbid.net/oferta/5")
    [] OTHER -> JStr(OfferUrl(JInt(i)))

Row(i, linkless) ==
  [ link |-> RowLink(i, linkless),
    category |-> JStr(IF i % 2 = 1 THEN "tecnologia" ELSE "imoveis"),
    source |-> JStr("superbid"),
    external_id |-> JStr(IntToStr(i)),
    lot_number |-> JStr("L" \o IntToStr(i)) ]

View(n, linkless) == [i \in 1..n |-> Row(i, linkless)]

\* .range(lo, hi).execute() on a view of rows: rows lo..hi, 0-based, both
\* ends included, as far as the view goes.
RangeOf(rows, lo, hi) ==
  IF lo >= Len(rows) THEN <<>> ELSE SubSeq(rows, lo + 1, Min(hi + 1, Len(rows)))

\* self.db_items[link] = {...}
Put(d, k, val) == [x \in DOMAIN d \cup {k} |-> IF x = k THEN val ELSE d[x]]

EmptyDict == [x \in {} |-> 0]

\* The for loop of load_database_items over one page.
RECURSIVE MergePage(_, _)
MergePage(d, page) ==
  IF page = <<>> THEN d
  ELSE LET item == Head(page)
           link == Get(item.link)
           d1 == IF Truthy(link)
                 THEN Put(d, link.v,
                          [ category |-> Get(item.category),
                            source |-> Get(item.source),
                            external_id |-> Get(item.external_id),
                            lot_number |-> Get(item.lot_number) ])
                 ELSE d
       IN MergePage(d1, Tail(page))

\* ------------------------------------------------------------ time
\* Instants datetime.now() may return during one run, in clock order: a
\* whole second, an instant later within the same second, the next second.
Times ==
  << [sec |-> 7, usec |-> 0], [sec |-> 7, usec |-> 250000],
     [sec |-> 8, usec |-> 0] >>

RECURSIVE Digits(_, _)
\* n written with exactly w digits, as a sequence of characters.
Digits(n, w) ==
  IF w = 0 THEN <<>> ELSE Append(Digits(n \div 10, w - 1), Digit(n % 10))

\* datetime.isoformat(): "YYYY-MM-DDTHH:MM:SS", then ".ffffff" unless the
\* microsecond is 0.  A sequence of characters, so that it can be sliced.
IsoFormat(tm) ==
  << "2", "0", "2", "6", "-", "1", "1", "-", "0", "6", "T",
     "0", "3", ":", "3", "8", ":" >>
    \o Digits(tm.sec, 2)
    \o (IF tm.usec = 0 THEN <<>> ELSE <<".">> \o Digits(tm.usec, 6))

\* s[:k]
Slice(s, k) == SubSeq(s, 1, Min(k, Len(s)))

\* ------------------------------------------------------------ offers
Offer(id, bids, bidders, detail) ==
  [id |-> id, totalBids |-> bids, totalBidders |-> bidders,
   offerDetail |-> detail]

Detail(cmb, ibv) == JObj([currentMinBid |-> cmb, initialBidValue |-> ibv])

NoRecord == [kind |-> "none"]
Raised == [kind |-> "raise"]

\* detail.get("currentMinBid") or detail.get("initialBidValue")
CurrentValue(detail) ==
  PyOr(Get(detail.v.currentMinBid), Get(detail.v.initialBidValue))

\* Lookup that answers with some item whatever the link.
LookupAny(db, link) ==
  IF DOMAIN db = {} THEN JNull ELSE JObj(db[CHOOSE k \in DOMAIN db : TRUE])

\* self.db_items.get(link): the item, or None.
Lookup(db, link) == IF link \in DOMAIN db THEN JObj(db[link]) ELSE JNull

\* process_offer(offer) with self.db_items = db and datetime.now() = tm:
\* None, a record, or an exception (offerDetail present but null).
process_offer(offer, db, tm) ==
  LET offer_id == Get(offer.id)
  IN IF ~Truthy(offer_id) THEN NoRecord
     ELSE LET link == OfferUrl(offer_id)
              db_item == Lookup(db, link)
          IN IF ~Truthy(db_item) THEN NoRecord
             ELSE LET detail == GetDefault(offer.offerDetail,
                                           Detail(Missing, Missing))
                  IN IF detail.t # "obj" THEN Raised
                     ELSE [ kind |-> "record",
                            rec |->
                              [ category |-> db_item.v.category,
                                source |-> db_item.v.source,
                                external_id |-> db_item.v.external_id,
                                lot_number |-> db_item.v.lot_number,
                                total_bids |->
                                  GetDefault(offer.totalBids, JInt(0)),
                                total_bidders |->
                                  GetDefault(offer.totalBidders, JInt(0)),
                                current_value |-> CurrentValue(detail),
                                captured_at |-> IsoFormat(tm) ] ]

\* ------------------------------------------------------ the offer API
JList(s) == [t |-> "list", v |-> s]

\* A body that is not JSON: response.json() raises.
BodyInvalid == [t |-> "invalid", v |-> 0]

\* What session.get() does for one category: it raises (exc), or answers
\* with a status code and a body.
Response(exc, status, body) == [exc |-> exc, status |-> status, body |-> body]

\* fetch_superbid_category(category) when session.get() behaves as resp:
\* the value returned to run().  [] after a caught exception or a status
\* other than 200; otherwise data.get("offers", []), whatever it is
\* (data.get itself raises, and is caught, when the body is not an object).
fetch_superbid_category(resp) ==
  IF resp.exc THEN JList(<<>>)
  ELSE IF resp.status # 200 THEN JList(<<>>)
  ELSE IF resp.body.t = "invalid" THEN JList(<<>>)
  ELSE IF resp.body.t # "obj" THEN JList(<<>>)
  ELSE GetDefault(resp.body.v.offers, JList(<<>>))

\* The for loop of run() over the offers of one category, from offer i on:
\* the records appended, the offers they came from, and whether
\* process_offer raised (which ends the loop, and the run).
RECURSIVE ProcessOffers(_, _, _, _, _)
ProcessOffers(offers, nows, db, i, acc) ==
  IF i > Len(offers) THEN acc
  ELSE LET r == process_offer(offers[i], db,
                              Times[nows[Min(Len(acc.recs) + 1, Len(nows))]])
       IN CASE r.kind = "raise" ->
                 [acc EXCEPT !.raised = TRUE, !.calls = @ + 1]
            [] r.kind = "none" ->
                 ProcessOffers(offers, nows, db, i + 1,
                               [acc EXCEPT !.calls = @ + 1])
            [] OTHER ->
                 ProcessOffers(offers, nows, db, i + 1,
                               [acc EXCEPT !.recs = Append(@, r.rec),
                                           !.origs = Append(@, offers[i]),
                                           !.calls = @ + 1])

\* ------------------------------------------------- the update stage
RECURSIVE Filter(_, _)
\* The records of one category, in order (by_category[cat]).
Filter(records, cat) ==
  IF records = <<>> THEN <<>>
  ELSE IF Head(records).category = cat
       THEN <<Head(records)>> \o Filter(Tail(records), cat)
       ELSE Filter(Tail(records), cat)

RECURSIVE CategoriesOf(_, _)
\* The keys of by_category, in insertion order.
CategoriesOf(records, seen) ==
  IF records = <<>> THEN <<>>
  ELSE IF Head(records).category \in seen
       THEN CategoriesOf(Tail(records), seen)
       ELSE <<Head(records).category>>
              \o CategoriesOf(Tail(records), seen \cup {Head(records).category})

RECURSIVE Flatten(_, _)
Flatten(records, cats) ==
  IF cats = <<>> THEN <<>>
  ELSE Filter(records, Head(cats)) \o Flatten(records, Tail(cats))

RECURSIVE LastOfEach(_, _)
LastOfEach(records, cats) ==
  IF cats = <<>> THEN <<>>
  ELSE LET mine == Filter(records, Head(cats))
       IN <<mine[Len(mine)]>> \o LastOfEach(records, Tail(cats))

\* UpdateOrder with by_category[cat] = [record] in place of the append:
\* only the last record of each category is kept.
UpdateOrderOverwrite(records) ==
  LastOfEach(records, CategoriesOf(records, {}))

\* The order in which update_base_tables updates the records: category by
\* category, the categories in order of first appearance.
UpdateOrder(records) == Flatten(records, CategoriesOf(records, {}))

\* ------------------------------------------------ the history stage
\* The dedup key of save_bid_history.
HistoryKey(record) ==
  << record.category, record.source, record.external_id,
     Slice(record.captured_at, TruncLen) >>

RECURSIVE KeysOf(_, _)
\* The keys of unique_records, in insertion order.
KeysOf(records, seen) ==
  IF records = <<>> THEN <<>>
  ELSE IF HistoryKey(Head(records)) \in seen
       THEN KeysOf(Tail(records), seen)
       ELSE <<HistoryKey(Head(records))>>
              \o KeysOf(Tail(records), seen \cup {HistoryKey(Head(records))})

\* LastWith that keeps the first record with the key, not the last.
FirstWith(records, key) ==
  LET idx == {i \in 1..Len(records) : HistoryKey(records[i]) = key}
  IN records[CHOOSE i \in idx : \A j \in idx : i <= j]

\* unique_records[key] after the loop: the last record with that key.
LastWith(records, key) ==
  LET idx == {i \in 1..Len(records) : HistoryKey(records[i]) = key}
  IN records[CHOOSE i \in idx : \A j \in idx : j <= i]

\* records_to_insert = list(unique_records.values())
Dedup(records) ==
  LET keys == KeysOf(records, {})
  IN [k \in 1..Len(keys) |-> LastWith(records, keys[k])]

\* ------------------------------------------------------ the summary
RECURSIVE Pow2(_)
Pow2(e) == IF e = 0 THEN 1 ELSE 2 * Pow2(e - 1)

RECURSIVE Log2Floor(_)
Log2Floor(m) == IF m < 2 THEN 0 ELSE 1 + Log2Floor(m \div 2)

\* LowMatch with <= in place of <.
LowMatchInclusive(m, n) == WarnDen * m <= n

\* matched_count < len(self.db_items) * 0.1 in IEEE double arithmetic.
\* 0.1 is the double (2^55 + 2) / (10 * 2^55), so the exact product is
\* x = n * (2^55 + 2) / (10 * 2^55), and m < round(x) iff x lies above the
\* midpoint of m and the next double, m + 2^(e - 53) with 2^e <= m < 2^(e+1)
\* (a tie rounds to m, whose significand is even), that is iff
\*     (n - 10 m) * 2^55 + 2 n  >  40 * 2^e.
\* Both 2 n and 40 * 2^e are below 2^55, so the comparison is decided by
\* n - 10 m and, when that is 0, by the low parts.
LowMatch(m, n) ==
  LET d == n - WarnDen * m
  IN IF m = 0 THEN n > 0
     ELSE d > 0 \/ (d = 0 /\ 2 * n > 4 * WarnDen * Pow2(Log2Floor(m)))

\* ------------------------------------------------------------ state
VARIABLES
  creds,          \* SUPABASE_URL and SUPABASE_KEY are both set
  view,           \* the rows the view serves to the load
  pc,             \* where main() is
  offset,         \* load_database_items: offset
  total_loaded,   \* load_database_items: total_loaded
  requested,      \* the ranges requested from the view, in order
  db_items,       \* self.db_items
  cat_i,          \* run: index of the next category to fetch
  fetched,        \* the categories fetched, in order
  last_fetch,     \* what the last fetch returned: "list", "null", ...
  all_records,    \* run: all_records
  origins,        \* the offer each record of all_records came from
  transformed,    \* calls of process_offer
  matched_count,  \* run: matched_count
  total_offers,   \* run: total_offers
  clock,          \* index in Times of the last instant read
  upd_i,          \* update_base_tables: records handled so far
  updated_count,  \* update_base_tables: updated_count
  errors,         \* update_base_tables: errors
  update_log,     \* the point updates issued, in order
  upserts,        \* the batches sent to auction_bid_history
  saved,          \* run: saved
  warned,         \* the low-match warning was printed
  run_result,     \* what run() did: "none", "true", "false", "raised"
  abort,          \* what ended the run early, "none" if nothing
  exit_code,      \* sys.exit code, -1 while main() runs
  probe_in,       \* the offer and mapping handed to a single process_offer
  probe_out       \* its result

vars ==
  << creds, view, pc, offset, total_loaded, requested, db_items, cat_i,
     fetched, last_fetch, all_records, origins, transformed, matched_count,
     total_offers, clock, upd_i, updated_count, errors, update_log, upserts,
     saved, warned, run_result, abort, exit_code, probe_in, probe_out >>

loadVars == << offset, total_loaded, requested, db_items >>
fetchVars ==
  << cat_i, fetched, last_fetch, all_records, origins, transformed,
     matched_count, total_offers, clock >>
updateVars == << upd_i, updated_count, errors, update_log >>
historyVars == << upserts, saved >>
probeVars == << probe_in, probe_out >>

NoFetch == "none"
NoProbe == [kind |-> "idle"]

Fresh ==
  /\ offset = 0
  /\ total_loaded = 0
  /\ requested = <<>>
  /\ db_items = EmptyDict
  /\ cat_i = 1
  /\ fetched = <<>>
  /\ last_fetch = NoFetch
  /\ all_records = <<>>
  /\ origins = <<>>
  /\ transformed = 0
  /\ matched_count = 0
  /\ total_offers = 0
  /\ clock = 1
  /\ upd_i = 0
  /\ updated_count = 0
  /\ errors = 0
  /\ update_log = <<>>
  /\ upserts = <<>>
  /\ saved = 0
  /\ warned = FALSE
  /\ run_result = "none"
  /\ abort = "none"
  /\ exit_code = -1

\* Offers handed to a single call of process_offer: every way an id, the
\* counters and the offerDetail can be missing, null, falsy or set.
ProbeIds ==
  { Missing, JNull, JInt(0), JStr(""), JInt(1), JStr("1"), JInt(2), JInt(5),
    JInt(99) }
ProbeBids == {Missing, JNull, JInt(3)}
ProbeMinBids == {Missing, JNull, JInt(0), JInt(100)}
ProbeInitialBids == {Missing, JNull, JInt(0), JInt(50)}
ProbeDetails ==
  {Missing, JNull}
    \cup {Detail(c, i) : c \in ProbeMinBids, i \in ProbeInitialBids}
ProbeOffers ==
  {Offer(id, b, b, d) : id \in ProbeIds, b \in ProbeBids, d \in ProbeDetails}

\* main() is about to run.
InitMain ==
  /\ creds \in BOOLEAN
  /\ \E n \in 0..MaxRows, linkless \in BOOLEAN : view = View(n, linkless)
  /\ pc = "main"
  /\ Fresh
  /\ probe_in = NoProbe
  /\ probe_out = NoProbe

\* A loaded monitor is about to be handed one offer, as the body of the
\* offer loop of run() does.
InitProbe ==
  /\ creds = TRUE
  /\ \E n \in {1, 2, 5} : view = View(n, FALSE)
  /\ pc = "probe"
  /\ \E offer \in ProbeOffers : probe_in = [kind |-> "offer", offer |-> offer]
  /\ probe_out = NoProbe
  /\ offset = (Len(view) \div PageSize) * PageSize
  /\ total_loaded = Len(view)
  /\ requested = [k \in 1..(Len(view) \div PageSize + 1) |->
                    << (k - 1) * PageSize, k * PageSize - 1 >>]
  /\ db_items = MergePage(EmptyDict, view)
  /\ cat_i = 1
  /\ fetched = <<>>
  /\ last_fetch = NoFetch
  /\ all_records = <<>>
  /\ origins = <<>>
  /\ transformed = 0
  /\ matched_count = 0
  /\ total_offers = 0
  /\ clock = 1
  /\ upd_i = 0
  /\ updated_count = 0
  /\ errors = 0
  /\ update_log = <<>>
  /\ upserts = <<>>
  /\ saved = 0
  /\ warned = FALSE
  /\ run_result = "none"
  /\ abort = "none"
  /\ exit_code = -1

Init == InitMain \/ InitProbe

\* LastPage with the short-page test off by one: a full page ends the load.
LastPageOffByOne(data) == data = <<>> \/ Len(data) <= PageSize

\* The two break tests of the while loop of load_database_items: an empty
\* page, or one shorter than page_size.
LastPage(data) == data = <<>> \/ Len(data) < PageSize

\* AfterLoad without the test for an empty mapping.
AfterLoadNoEmptyCheck(ok, d) ==
  IF ~ok THEN [pc |-> "exit", code |-> 1, result |-> "false", why |-> "load"]
  ELSE [pc |-> "fetch", code |-> -1, result |-> "none", why |-> "none"]

\* run() after load_database_items returned: failure ends the run with
\* False, an empty mapping with True, anything else goes on to the fetch.
AfterLoad(ok, d) ==
  IF ~ok THEN [pc |-> "exit", code |-> 1, result |-> "false", why |-> "load"]
  ELSE IF DOMAIN d = {}
       THEN [pc |-> "exit", code |-> 0, result |-> "true", why |-> "empty"]
       ELSE [pc |-> "fetch", code |-> -1, result |-> "none", why |-> "none"]

\* main() leaves through sys.exit(code).
Exit(code, result, why) ==
  /\ pc' = "exit"
  /\ exit_code' = code
  /\ run_result' = result
  /\ abort' = why

\* main(): SuperBidMonitor() raises ValueError without the credentials,
\* which main() catches; otherwise run() starts with the load.
Construct ==
  /\ pc = "main"
  /\ IF creds
     THEN /\ pc' = "load"
          /\ UNCHANGED << exit_code, run_result, abort >>
     ELSE Exit(1, "none", "config")
  /\ UNCHANGED << creds, view, loadVars, fetchVars, updateVars, historyVars,
                  warned, probeVars >>

\* One turn of the while loop of load_database_items: one range request.
\* A fault makes load_database_items return False, run() return False and
\* main() exit with 1.  After the last page run() tests self.db_items.
LoadPage ==
  /\ pc = "load"
  /\ \E fault \in BOOLEAN :
       LET lo == offset
           hi == offset + PageSize - 1
           data == RangeOf(view, lo, hi)
           merged == MergePage(db_items, data)
           after == AfterLoad(~fault, IF fault THEN db_items ELSE merged)
       IN /\ requested' = Append(requested, <<lo, hi>>)
          /\ IF fault
             THEN UNCHANGED << offset, total_loaded, db_items >>
             ELSE /\ db_items' = merged
                  /\ total_loaded' = total_loaded + Len(data)
                  /\ offset' = IF LastPage(data) THEN offset
                               ELSE offset + PageSize
          /\ IF ~fault /\ ~LastPage(data)
             THEN UNCHANGED << pc, exit_code, run_result, abort >>
             ELSE /\ pc' = after.pc
                  /\ exit_code' = after.code
                  /\ run_result' = after.result
                  /\ abort' = after.why
  /\ UNCHANGED << creds, view, fetchVars, updateVars, historyVars, warned,
                  probeVars >>

\* ------------------------------------------------- what the API serves
\* Offers of a run: without an id, with an id no reference item has, with
\* the id of reference item 1 as a number and as a string, with the id of
\* reference item 2, and the same with an offerDetail that is null.
RunOffers ==
  { Offer(Missing, Missing, Missing, Missing),
    Offer(JInt(99), JInt(3), JInt(2), Detail(JInt(100), Missing)),
    Offer(JInt(1), JInt(3), JInt(2), Detail(JInt(100), Missing)),
    Offer(JStr("1"), Missing, Missing, Missing),
    Offer(JInt(2), JInt(3), JInt(2), Missing),
    Offer(JInt(2), JInt(3), JInt(2), JNull) }

OfferLists(k) == UNION {[1..n -> RunOffers] : n \in 0..k}

\* What session.get() may do, serving at most k offers.
Responses(k) ==
  { Response(TRUE, 0, BodyInvalid),
    Response(FALSE, 500, JObj([offers |-> JList(<<>>)])),
    Response(FALSE, 200, BodyInvalid),
    Response(FALSE, 200, JList(<<>>)),
    Response(FALSE, 200, JObj([offers |-> Missing])),
    Response(FALSE, 200, JObj([offers |-> JNull])) }
  \cup {Response(FALSE, 200, JObj([offers |-> JList(s)])) : s \in OfferLists(k)}

\* The instants n calls of datetime.now() may return, one after the other:
\* never before the last instant read, never going back.
Nows(n) ==
  {f \in [1..n -> clock..Len(Times)] : \A i \in 1..(n - 1) : f[i] <= f[i + 1]}

\* The offers of a category for which process_offer reaches datetime.now().
Stamped(offers, db) ==
  Len(ProcessOffers(offers, <<1>>, db, 1,
                    [recs |-> <<>>, origs |-> <<>>, calls |-> 0,
                     raised |-> FALSE]).recs)

\* One turn of the for loop of run() over SUPERBID_CATEGORIES: the fetch of
\* one category and the processing of its offers.  len(offers) raises when
\* the fetch returned no sequence, and process_offer may raise: either way
\* the exception leaves run() and main() exits with 1.
FetchCategory ==
  /\ pc = "fetch"
  /\ \E resp \in Responses(MaxOffers - total_offers) :
       LET offers == fetch_superbid_category(resp)
       IN /\ fetched' = Append(fetched, SUPERBID_CATEGORIES[cat_i])
          /\ IF offers.t # "list"
             THEN /\ last_fetch' = offers.t
                  /\ Exit(1, "raised", "fetch")
                  /\ UNCHANGED << cat_i, all_records, origins, transformed,
                                  matched_count, total_offers, clock >>
             ELSE \E nows \in Nows(Stamped(offers.v, db_items)) :
                    LET acc == ProcessOffers(offers.v, nows \o <<clock>>,
                                 db_items, 1,
                                 [recs |-> <<>>, origs |-> <<>>,
                                  calls |-> 0, raised |-> FALSE])
                        recs == all_records \o acc.recs
                    IN /\ last_fetch' = offers.t
                       /\ total_offers' = total_offers + Len(offers.v)
                       /\ all_records' = recs
                       /\ origins' = origins \o acc.origs
                       /\ transformed' = transformed + acc.calls
                       /\ clock' = IF nows = <<>> THEN clock
                                   ELSE nows[Len(nows)]
                       /\ IF acc.raised
                          THEN /\ Exit(1, "raised", "offer")
                               /\ UNCHANGED << cat_i, matched_count >>
                          ELSE /\ matched_count' = matched_count + Len(acc.recs)
                               /\ cat_i' = cat_i + 1
                               /\ pc' = IF cat_i < Len(SUPERBID_CATEGORIES)
                                        THEN "fetch"
                                        ELSE IF recs = <<>> THEN "history"
                                        ELSE "update"
                               /\ UNCHANGED << exit_code, run_result, abort >>
  /\ UNCHANGED << creds, view, loadVars, updateVars, historyVars, warned,
                  probeVars >>

\* The rows of the base tables, as (table, source, external_id): the row
\* of reference item 1 is there, the row of reference item 2 is not.
BaseRows == {<< JStr("tecnologia"), JStr("superbid"), JStr("1") >>}

\* One turn of the inner loop of update_base_tables: the point update of
\* the next record.  execute() raises or returns; the rows it matched (one,
\* or none when the table has no such row) are not looked at.
UpdateRecord ==
  /\ pc = "update"
  /\ \E raises \in BOOLEAN :
       LET queue == UpdateOrder(all_records)
           record == queue[upd_i + 1]
       IN /\ update_log' = Append(update_log,
                                  [ table |-> record.category,
                                    source |-> record.source,
                                    external_id |-> record.external_id,
                                    raised |-> raises,
                                    rows |->
                                      IF ~raises /\
                                         << record.category, record.source,
                                            record.external_id >> \in BaseRows
                                      THEN 1 ELSE 0 ])
          /\ upd_i' = upd_i + 1
          /\ IF raises
             THEN /\ errors' = errors + 1
                  /\ UNCHANGED updated_count
             ELSE /\ updated_count' = updated_count + 1
                  /\ UNCHANGED errors
          /\ pc' = IF upd_i + 1 < Len(queue) THEN "update" ELSE "history"
  /\ UNCHANGED << creds, view, loadVars, fetchVars, historyVars, warned,
                  run_result, abort, exit_code, probeVars >>

\* save_bid_history(all_records): nothing for no records, otherwise one
\* bulk upsert of the deduplicated records, which may raise.
SaveHistory ==
  /\ pc = "history"
  /\ IF all_records = <<>>
     THEN /\ saved' = 0
          /\ UNCHANGED upserts
     ELSE \E fault \in BOOLEAN :
            LET records_to_insert == Dedup(all_records)
            IN /\ upserts' = Append(upserts, records_to_insert)
               /\ saved' = IF fault THEN 0 ELSE Len(records_to_insert)
  /\ pc' = "summary"
  /\ UNCHANGED << creds, view, loadVars, fetchVars, updateVars, warned,
                  run_result, abort, exit_code, probeVars >>

\* The summary of run(): the match rate divides by len(self.db_items), the
\* warning is printed on a low match, run() returns True, main() exits 0.
Summary ==
  /\ pc = "summary"
  /\ LET n == Cardinality(DOMAIN db_items)
     IN IF n = 0
        THEN /\ Exit(1, "raised", "summary")
             /\ UNCHANGED warned
        ELSE /\ warned' = LowMatch(matched_count, n)
             /\ Exit(0, "true", "none")
  /\ UNCHANGED << creds, view, loadVars, fetchVars, updateVars, historyVars,
                  probeVars >>

\* The body of the offer loop of run() for one offer: process_offer, and
\* the record appended when there is one.
ProbeOffer ==
  /\ pc = "probe"
  /\ \E now \in clock..Len(Times) :
       LET acc == ProcessOffers(<<probe_in.offer>>, <<now>>, db_items, 1,
                                [recs |-> <<>>, origs |-> <<>>, calls |-> 0,
                                 raised |-> FALSE])
       IN /\ probe_out = NoProbe
          /\ probe_out' = process_offer(probe_in.offer, db_items, Times[now])
          /\ all_records' = acc.recs
          /\ origins' = acc.origs
          /\ transformed' = acc.calls
          /\ clock' = now
  /\ pc' = "probed"
  /\ UNCHANGED << creds, view, loadVars, cat_i, fetched, last_fetch,
                  matched_count, total_offers, updateVars, historyVars, warned,
                  run_result, abort, exit_code, probe_in >>

Next ==
  \/ ProbeOffer
  \/ Construct
  \/ LoadPage
  \/ FetchCategory
  \/ UpdateRecord
  \/ SaveHistory
  \/ Summary

Spec == Init /\ [][Next]_vars

\* ================================================================ claims
NKeys == Cardinality(DOMAIN db_items)

\* load_database_items returned True.
LoadDone == pc \notin {"main", "load"} /\ abort \notin {"config", "load"}

\* Requests the load makes for a view of n rows: the full pages and the
\* first page that is empty or short.
PagesFor(n) == n \div PageSize + 1

\* No fetch, no transformation, no update and no history write took place.
NoLaterWork ==
  /\ fetched = <<>>
  /\ transformed = 0
  /\ all_records = <<>>
  /\ update_log = <<>>
  /\ upserts = <<>>

Count(seq, x) == Cardinality({i \in 1..Len(seq) : seq[i] = x})

\* ---------------------------------------------------------------- C1
\* C1: a run whose load succeeded with a non-empty mapping ends with run()
\* returning True and exit code 0, whatever faults occur later; exit code 1
\* comes only from a load fault, missing credentials or an exception that
\* leaves run().
C1_LoadedRunExitsZero ==
  /\ (pc = "exit" /\ LoadDone /\ NKeys > 0)
       => (run_result = "true" /\ exit_code = 0)
  /\ exit_code = 1 => (abort \in {"load", "config"} \/ run_result = "raised")

\* ---------------------------------------------------------------- C2
\* C2: every fetch hands run() a sequence (an empty one on a fault), no
\* fetch ends the run, and the later stages start only after every
\* category was fetched once, in list order.
C2_FetchFaultNeverAborts ==
  /\ last_fetch \in {"none", "list"}
  /\ abort # "fetch"
  /\ fetched = SubSeq(SUPERBID_CATEGORIES, 1, Len(fetched))
  /\ pc \in {"update", "history", "summary"} => fetched = SUPERBID_CATEGORIES

\* ---------------------------------------------------------------- C3
\* C3: the load requests the consecutive ranges [0, P-1], [P, 2P-1], ...,
\* stops at the first page that is empty or shorter than P, and then the
\* mapping has exactly the links of the rows that have one.
C3_LoadPagesWholeView ==
  /\ \A k \in 1..Len(requested) :
       requested[k] = << (k - 1) * PageSize, k * PageSize - 1 >>
  /\ Len(requested) <= PagesFor(Len(view))
  /\ pc = "load" => Len(requested) < PagesFor(Len(view))
  /\ LoadDone =>
       /\ Len(requested) = PagesFor(Len(view))
       /\ total_loaded = Len(view)
       /\ DOMAIN db_items =
            { view[i].link.v :
                i \in {j \in 1..Len(view) :
                         view[j].link.t = "str" /\ view[j].link.v # ""} }

\* A view of exactly two full pages, one row of it without a link, was
\* loaded with three requests.
C3_Witness ==
  /\ pc = "fetch"
  /\ Len(view) = 2 * PageSize
  /\ Len(requested) = 3
  /\ \E i \in 1..Len(view) : view[i].link = JNull

\* ---------------------------------------------------------------- C4
\* C4: fetches, transformations, updates and history writes happen only
\* after a complete fault-free load of a non-empty mapping; a load fault
\* ends the run with failure and an empty mapping ends it with success,
\* both without any later work.
C4_WorkOnlyAfterLoad ==
  /\ ~NoLaterWork =>
       (LoadDone /\ Len(requested) = PagesFor(Len(view)) /\ NKeys > 0)
  /\ abort = "load" =>
       (pc = "exit" /\ run_result = "false" /\ exit_code = 1 /\ NoLaterWork)
  /\ (LoadDone /\ NKeys = 0) =>
       ( pc = "exit" /\ abort = "empty" /\ run_result = "true"
         /\ exit_code = 0 /\ NoLaterWork )

\* The load faulted after earlier pages had been merged into the mapping.
C4_Witness == abort = "load" /\ NKeys > 0 /\ Len(requested) > 1

\* ---------------------------------------------------------------- C5
\* The record carries the four fields of the reference item whose link is
\* the URL derived from the id of the offer.
RecordFrom(record, offer) ==
  LET id == Get(offer.id)
  IN /\ id.t \in {"int", "str"}
     /\ OfferUrl(id) \in DOMAIN db_items
     /\ record.category = db_items[OfferUrl(id)].category
     /\ record.source = db_items[OfferUrl(id)].source
     /\ record.external_id = db_items[OfferUrl(id)].external_id
     /\ record.lot_number = db_items[OfferUrl(id)].lot_number

\* The offer has no id, or the URL derived from its id is no key.
NoMatchCase(offer) ==
  LET id == Get(offer.id)
  IN id = JNull \/ OfferUrl(id) \notin DOMAIN db_items

\* C5: every accumulated record comes from an offer whose derived URL is a
\* key of the mapping and carries that item's fields; an offer without an
\* id or with a URL that is no key gives no record and raises nothing.
C5_RecordsComeFromMatches ==
  /\ Len(origins) = Len(all_records)
  /\ \A i \in 1..Len(all_records) : RecordFrom(all_records[i], origins[i])
  /\ (pc = "probed" /\ NoMatchCase(probe_in.offer)) =>
       (probe_out.kind = "none" /\ all_records = <<>>)

\* A run accumulated a record for the offer with id "1" and skipped another
\* offer of the same run.
C5_Witness ==
  /\ pc = "fetch"
  /\ Len(all_records) = 1
  /\ origins[1].id = JStr("1")
  /\ total_offers = 2

\* ---------------------------------------------------------------- C6
\* C6: the updates issued are those of the records, one each, against the
\* table of the record's category and keyed by (source, external_id); a
\* raising update is counted and the others still happen; the count
\* returned is that of the updates that did not raise.
C6_OneUpdatePerRecord ==
  LET queue == UpdateOrder(all_records)
      done == {k \in 1..Len(update_log) : ~update_log[k].raised}
  IN /\ Len(queue) = Len(all_records)
     /\ \A i \in 1..Len(all_records) :
          Count(queue, all_records[i]) = Count(all_records, all_records[i])
     /\ Len(update_log) = upd_i
     /\ \A k \in 1..Len(update_log) :
          /\ k <= Len(queue)
          /\ update_log[k].table = queue[k].category
          /\ update_log[k].source = queue[k].source
          /\ update_log[k].external_id = queue[k].external_id
     /\ updated_count = Cardinality(done)
     /\ updated_count + errors = Len(update_log)
     /\ (pc \in {"history", "summary"} \/ (pc = "exit" /\ abort = "none"))
          => Len(update_log) = Len(all_records)

\* The first update raised, the second went on, matched no row and was
\* counted as a success.
C6_Witness ==
  /\ pc = "history"
  /\ Len(update_log) = 2
  /\ update_log[1].raised
  /\ ~update_log[2].raised
  /\ update_log[2].rows = 0
  /\ updated_count = 1
  /\ errors = 1

\* ---------------------------------------------------------------- C7
RECURSIVE WholeSecond(_)
\* The timestamp up to, not including, its fraction of a second.
WholeSecond(s) ==
  IF s = <<>> \/ Head(s) = "." THEN <<>>
  ELSE <<Head(s)>> \o WholeSecond(Tail(s))

SecondKey(record) ==
  << record.category, record.source, record.external_id,
     WholeSecond(record.captured_at) >>

\* C7: at most one bulk upsert per run; its batch has one record for each
\* (category, source, external_id, whole second) of the records, namely
\* the last record with that key.
C7_HistoryKeepsLastPerSecond ==
  /\ Len(upserts) <= 1
  /\ \A b \in 1..Len(upserts) :
       LET batch == upserts[b]
       IN /\ \A i, j \in 1..Len(batch) :
               SecondKey(batch[i]) = SecondKey(batch[j]) => i = j
          /\ {SecondKey(batch[i]) : i \in 1..Len(batch)}
               = {SecondKey(all_records[i]) : i \in 1..Len(all_records)}
          /\ \A i \in 1..Len(batch) :
               \E k \in 1..Len(all_records) :
                 /\ all_records[k] = batch[i]
                 /\ \A j \in (k + 1)..Len(all_records) :
                      SecondKey(all_records[j]) # SecondKey(batch[i])

\* Two records that differ in the fraction of the second collapsed to the
\* one processed later.
C7_Witness ==
  /\ Len(upserts) = 1
  /\ Len(all_records) = 2
  /\ all_records[1].captured_at # all_records[2].captured_at
  /\ upserts[1] = <<all_records[2]>>

\* ---------------------------------------------------------------- C8
\* The value the selection policy names: currentMinBid when present and
\* not null, else initialBidValue when present and not null, else null.
PolicyValue(offer) ==
  LET d == GetDefault(offer.offerDetail, Detail(Missing, Missing))
      cmb == Get(d.v.currentMinBid)
      ibv == Get(d.v.initialBidValue)
  IN IF cmb # JNull THEN cmb ELSE ibv

\* C8: a matched offer (whose offerDetail is an object or missing) gives a
\* record whose current_value follows the selection policy.
C8_CurrentValuePolicy ==
  ( /\ pc = "probed"
    /\ ~NoMatchCase(probe_in.offer)
    /\ Truthy(Get(probe_in.offer.id))
    /\ probe_in.offer.offerDetail # JNull )
  => /\ probe_out.kind = "record"
     /\ probe_out.rec.current_value = PolicyValue(probe_in.offer)
     /\ all_records = <<probe_out.rec>>

\* ---------------------------------------------------------------- C9
\* C9: an exception raised while one offer is transformed does not end the
\* run.
C9_OfferFaultRecovered == abort # "offer"

\* --------------------------------------------------------------- C10
\* C10: a run that reaches the summary has at least one reference item, so
\* the match rate is defined, and it warns exactly when
\* 10 * matched_count < reference-item count.
C10_WarningBelowTenPercent ==
  /\ abort # "summary"
  /\ pc = "summary" => NKeys >= 1
  /\ (pc = "exit" /\ abort = "none") =>
       (NKeys >= 1 /\ (warned <=> 10 * matched_count < NKeys))
  /\ warned => (pc = "exit" /\ abort = "none")

\* One match out of ten reference items: exactly 10%, no warning.
C10_Witness ==
  /\ pc = "exit"
  /\ abort = "none"
  /\ matched_count = 1
  /\ NKeys = 10
  /\ ~warned

====
